---- MODULE Spec2Model ----
(***************************************************************************)
(* A model of zongfe.py: process_activity_data folds per-period score      *)
(* workbooks (S*.xlsx) into the cumulative summary workbook, optionally    *)
(* starting from the summary written by an earlier run.                    *)
(*                                                                         *)
(* Strings that the program takes apart (file names, period labels,        *)
(* header cells) are sequences of characters; a cell value is a record     *)
(* [t, s, n] (t = "none" | "str" | "int"); a worksheet is a sequence of     *)
(* rows, each a sequence of cells.                                         *)
(***************************************************************************)
EXTENDS Integers, Sequences, FiniteSets, TLC

(* ---------------------------------------------------------------- bounds *)
\* runs of process_activity_data in one behaviour
MaxRuns == 2
\* files that may be dropped into the working directory in one behaviour
MaxPuts == 2

(* ------------------------------------------------------------ cell values *)
NoneCell == [t |-> "none", s |-> "", n |-> 0]
StrC(x) == [t |-> "str", s |-> x, n |-> 0]
IntC(k) == [t |-> "int", s |-> "", n |-> k]

\* str(cell.value): None becomes the four letters "None"
PyStr(c) ==
    CASE c.t = "none" -> "None"
      [] c.t = "str" -> c.s
      [] c.t = "int" -> ToString(c.n)

\* `value if value is not None else 0`
NoneToZero(c) == IF c.t = "none" THEN IntC(0) ELSE c

(* --------------------------------------------------------- character strings *)
Range(s) == {s[i] : i \in 1..Len(s)}

\* code points order the characters the file names use
CharOrd(c) ==
    CASE c = "." -> 46
      [] c = "1" -> 49
      [] c = "2" -> 50
      [] c = "A" -> 65
      [] c = "S" -> 83
      [] c = "l" -> 108
      [] c = "s" -> 115
      [] c = "x" -> 120
      [] OTHER -> 255

RECURSIVE StrLess(_, _)
\* Python's < on str: lexicographic by code point, a proper prefix is smaller
StrLess(a, b) ==
    IF b = <<>> THEN FALSE
    ELSE IF a = <<>> THEN TRUE
    ELSE IF a[1] = b[1] THEN StrLess(Tail(a), Tail(b))
    ELSE CharOrd(a[1]) < CharOrd(b[1])

RECURSIVE Sorted(_)
\* sorted(iterable of distinct strings), as a sequence
Sorted(S) ==
    IF S = {} THEN <<>>
    ELSE LET m == CHOOSE x \in S : \A y \in S \ {x} : StrLess(x, y)
         IN <<m>> \o Sorted(S \ {m})

IsPrefix(p, s) == Len(p) <= Len(s) /\ SubSeq(s, 1, Len(p)) = p
IsSuffix(p, s) == Len(p) <= Len(s) /\ SubSeq(s, Len(s) - Len(p) + 1, Len(s)) = p

RECURSIVE Replace(_, _)
\* s.replace(old, ''): every non-overlapping occurrence, left to right
Replace(s, old) ==
    IF s = <<>> THEN <<>>
    ELSE IF IsPrefix(old, s) THEN Replace(SubSeq(s, Len(old) + 1, Len(s)), old)
    ELSE <<s[1]>> \o Replace(Tail(s), old)

DotXlsx == <<".", "x", "l", "s", "x">>

\* period_key = f'S{file.replace("S", "").replace(".xlsx", "")}'
PeriodKey(file) == <<"S">> \o Replace(Replace(file, <<"S">>), DotXlsx)

\* header.startswith('S')
StartsWithS(h) == Len(h) > 0 /\ h[1] = "S"

\* glob pattern 'S*.xlsx'
GlobMatch(file) == Len(file) >= 6 /\ IsPrefix(<<"S">>, file) /\ IsSuffix(DotXlsx, file)

(* --------------------------------------------------------------- headers *)
\* the four fixed column titles; the score column of a period file and the
\* total column of the summary carry the same title
NameCol == <<"NianJiZhuanYeBanJiXingMing">>
PhoneCol == <<"ShouJiHaoMa">>
IdCol == <<"XueHao">>
TotalCol == <<"ZongFen">>
RequiredColumns == <<NameCol, PhoneCol, IdCol, TotalCol>>

\* headers.index(x), 1-based; 0 stands for the ValueError
Index(hs, x) ==
    IF \E i \in 1..Len(hs) : hs[i] = x
    THEN CHOOSE i \in 1..Len(hs) : hs[i] = x /\ \A j \in 1..(i - 1) : hs[j] # x
    ELSE 0

Max2(a, b) == IF a >= b THEN a ELSE b
MaxIdx(hs) ==
    Max2(Max2(Index(hs, NameCol), Index(hs, PhoneCol)),
         Max2(Index(hs, IdCol), Index(hs, TotalCol)))

\* len(row) <= max(name_idx, phone_idx, id_idx, score_idx), indices 0-based there
RowTooShort(hs, row) == Len(row) < MaxIdx(hs)

\* missing_columns = [col for col in required_columns if col not in headers]
MissingColumns(hs) == {c \in Range(RequiredColumns) : c \notin Range(hs)}

(* ------------------------------------------------------------ dictionaries *)
EmptyDict == [k \in {} |-> 0]
DictPut(d, k, v) == [x \in (DOMAIN d) \cup {k} |-> IF x = k THEN v ELSE d[x]]

(* --------------------------------------------------------------- workbooks *)
\* a file on disk: kind "absent" (no such file), "corrupt" (load_workbook
\* raises), "blank" (a sheet with no row at all), or "table"
NoFile == [kind |-> "absent", headers |-> <<>>, rows |-> <<>>]
Corrupt == [kind |-> "corrupt", headers |-> <<>>, rows |-> <<>>]
Blank == [kind |-> "blank", headers |-> <<>>, rows |-> <<>>]
Table(hs, rs) == [kind |-> "table", headers |-> hs, rows |-> rs]

\* the file names the working directory may hold
F_S1 == <<"S", "1", ".", "x", "l", "s", "x">>
F_S2 == <<"S", "2", ".", "x", "l", "s", "x">>
F_SS1 == <<"S", "S", "1", ".", "x", "l", "s", "x">>
F_A1 == <<"A", "1", ".", "x", "l", "s", "x">>
FileNames == {F_S1, F_S2, F_SS1, F_A1}

H4 == <<NameCol, PhoneCol, IdCol, TotalCol>>
H5 == <<NameCol, PhoneCol, <<"BeiZhu">>, IdCol, TotalCol>>
H3 == <<NameCol, PhoneCol, TotalCol>>

\* the period workbooks a file may hold
ShPlain == Table(H4, << <<StrC("A"), StrC("p1"), StrC("1"), IntC(5)>>,
                        <<StrC("B"), StrC("p2"), IntC(2), IntC(3)>> >>)
ShConflict == Table(H4, << <<StrC("A2"), StrC("p9"), IntC(1), IntC(4)>>,
                           <<StrC("C"), NoneCell, StrC("3"), NoneCell>> >>)
ShRepeat == Table(H4, << <<StrC("C"), StrC("p3"), StrC("3"), IntC(1)>>,
                         <<StrC("C2"), StrC("p4"), IntC(3), IntC(2)>> >>)
ShNoIdCol == Table(H3, << <<StrC("D"), StrC("p5"), IntC(9)>> >>)
ShNoId == Table(H4, << <<StrC("D"), StrC("p5"), NoneCell, IntC(2)>>,
                       <<StrC("E"), StrC("p6"), StrC(""), IntC(7)>> >>)
ShBadScore == Table(H4, << <<StrC("A"), StrC("p1"), StrC("1"), StrC("x")>> >>)
ShShort == Table(H5, << <<StrC("A"), StrC("p1")>>,
                        <<StrC("B"), StrC("p2"), StrC("note"), StrC("2"), IntC(6)>> >>)
ShHeaderOnly == Table(H4, <<>>)
Sheets ==
    {ShPlain, ShConflict, ShRepeat, ShNoIdCol, ShNoId, ShBadScore, ShShort,
     ShHeaderOnly, Corrupt, Blank}

\* the workbooks tried under each name: every kind under S1 and S2, the ones
\* that matter for a second file of period S1 under SS1, one under A1 (which
\* the pattern does not match)
SheetsFor(f) ==
    IF f = F_A1 THEN {ShPlain}
    ELSE IF f = F_SS1 THEN {ShConflict, ShRepeat, ShNoIdCol, ShBadScore}
    ELSE Sheets

(* ------------------------------------------------- read_existing_summary *)
RECURSIVE PeriodColumnsFrom(_, _)
\* the headers that start with 'S' and sit in none of the four fixed columns,
\* in header order
PeriodColumnsFrom(hs, i) ==
    IF i > Len(hs) THEN <<>>
    ELSE (IF StartsWithS(hs[i])
             /\ i \notin {Index(hs, NameCol), Index(hs, PhoneCol),
                          Index(hs, IdCol), Index(hs, TotalCol)}
          THEN <<hs[i]>> ELSE <<>>) \o PeriodColumnsFrom(hs, i + 1)

\* the scores dictionary the loader fills for one row
LoadedScores(hs, periods, row) ==
    [p \in {q \in Range(periods) : Index(hs, q) <= Len(row)} |->
        NoneToZero(row[Index(hs, p)])]

\* one data row of the summary, folded into student_data
LoadRow(hs, periods, row, acc) ==
    IF RowTooShort(hs, row) THEN acc
    ELSE LET student_id == PyStr(row[Index(hs, IdCol)])
         IN IF student_id = "" THEN acc
            ELSE DictPut(acc, student_id,
                         [info |-> <<row[Index(hs, NameCol)], row[Index(hs, PhoneCol)]>>,
                          scores |-> LoadedScores(hs, periods, row)])

RECURSIVE LoadRows(_, _, _, _)
LoadRows(hs, periods, rows, acc) ==
    IF rows = <<>> THEN acc
    ELSE LoadRows(hs, periods, Tail(rows), LoadRow(hs, periods, Head(rows), acc))

\* (student_data, period_columns); ({}, []) when the workbook cannot be read
\* or lacks one of the four fixed columns
ReadExistingSummary(wb) ==
    IF wb.kind # "table" \/ MissingColumns(wb.headers) # {}
    THEN [data |-> EmptyDict, periods |-> <<>>]
    ELSE LET periods == PeriodColumnsFrom(wb.headers, 1)
         IN [data |-> LoadRows(wb.headers, periods, wb.rows, EmptyDict),
             periods |-> periods]

(* ------------------------------------------------------------------ state *)
VARIABLES
    fs,                 \* the working directory: file name -> workbook
    summary,            \* the workbook stored under SUMMARY_FILE
    pc,                 \* "idle" | "loop" | "rows" | "build"
    update_mode,        \* the argument of the current (or last) run
    files,              \* sorted(glob.glob(file_pattern))
    fi,                 \* position of the for loop in files
    ri,                 \* position of the row loop in the open sheet
    existing_data, existing_periods,
    all_data, all_participants, participant_info,
    processed_files,
    open_wbs,           \* workbooks loaded and not closed
    outcome,            \* how the last run ended
    runs, puts,         \* runs started, files dropped so far
    prev_mode, prev_fs, \* history: mode and directory of the run before
    run_fs, run_summary,\* history: directory and summary when the run started
    consumed            \* history: the files folded into the summary on disk

vars ==
    <<fs, summary, pc, update_mode, files, fi, ri, existing_data, existing_periods,
      all_data, all_participants, participant_info, processed_files, open_wbs,
      outcome, runs, puts, prev_mode, prev_fs, run_fs, run_summary, consumed>>

locals ==
    <<update_mode, files, fi, ri, existing_data, existing_periods, all_data,
      all_participants, participant_info, processed_files>>
history == <<prev_mode, prev_fs, run_fs, run_summary>>

SUMMARY_FILE == <<"HuoDongZongFenHuiZongBiao", ".", "x", "l", "s", "x">>

ModeName(m) == IF m THEN "update" ELSE "regenerate"

Init ==
    /\ fs = [f \in FileNames |-> NoFile]
    /\ summary = NoFile
    /\ pc = "idle"
    /\ update_mode = TRUE
    /\ files = <<>>
    /\ fi = 1
    /\ ri = 1
    /\ existing_data = EmptyDict
    /\ existing_periods = <<>>
    /\ all_data = EmptyDict
    /\ all_participants = {}
    /\ participant_info = EmptyDict
    /\ processed_files = <<>>
    /\ open_wbs = {}
    /\ outcome = "none"
    /\ runs = 0
    /\ puts = 0
    /\ prev_mode = "none"
    /\ prev_fs = [f \in FileNames |-> NoFile]
    /\ run_fs = [f \in FileNames |-> NoFile]
    /\ run_summary = NoFile
    /\ consumed = {}

(* ------------------------------------------------------------ environment *)
\* a new workbook appears in the working directory between two runs
PutFile(f, wb) ==
    /\ pc = "idle"
    /\ puts < MaxPuts
    /\ fs[f] = NoFile
    /\ fs' = [fs EXCEPT ![f] = wb]
    /\ puts' = puts + 1
    /\ UNCHANGED <<summary, pc, locals, open_wbs, outcome, runs, history, consumed>>

(* ------------------------------------------------- process_activity_data *)
\* files = sorted(glob.glob(file_pattern))
GlobFiles(dir) == Sorted({f \in DOMAIN dir : dir[f] # NoFile /\ GlobMatch(f)})

\* faulty variant: the summary is loaded whatever the mode
ExistingSummaryAlways(mode, wb) ==
    IF wb # NoFile THEN ReadExistingSummary(wb)
    ELSE [data |-> EmptyDict, periods |-> <<>>]

\* the loader's result, or ({}, []) when it is not called
ExistingSummary(mode, wb) ==
    IF mode /\ wb # NoFile THEN ReadExistingSummary(wb)
    ELSE [data |-> EmptyDict, periods |-> <<>>]

\* the summary workbook stays open when the loader leaves before wb.close()
LoaderLeak(mode, wb) ==
    IF mode /\ wb # NoFile /\ wb.kind = "table" /\ MissingColumns(wb.headers) # {}
    THEN {SUMMARY_FILE} ELSE {}

StartHistory ==
    /\ prev_mode' = (IF runs = 0 THEN "none" ELSE ModeName(update_mode))
    /\ prev_fs' = run_fs
    /\ run_fs' = fs
    /\ run_summary' = summary

\* no file matches the pattern: the run returns at once
StartRunNoFiles(mode) ==
    /\ pc = "idle"
    /\ runs < MaxRuns
    /\ GlobFiles(fs) = <<>>
    /\ runs' = runs + 1
    /\ update_mode' = mode
    /\ files' = <<>>
    /\ processed_files' = <<>>
    /\ outcome' = "no_files"
    /\ StartHistory
    /\ UNCHANGED <<fs, summary, pc, fi, ri, existing_data, existing_periods, all_data,
                   all_participants, participant_info, open_wbs, puts, consumed>>

\* the run up to the head of the for loop
StartRun(mode) ==
    /\ pc = "idle"
    /\ runs < MaxRuns
    /\ GlobFiles(fs) # <<>>
    /\ runs' = runs + 1
    /\ update_mode' = mode
    /\ files' = GlobFiles(fs)
    /\ LET ex == ExistingSummary(mode, summary)
       IN /\ existing_data' = ex.data
          /\ existing_periods' = ex.periods
          /\ all_data' = ex.data
          /\ all_participants' = DOMAIN ex.data
          /\ participant_info' = [id \in DOMAIN ex.data |-> ex.data[id].info]
    /\ open_wbs' = LoaderLeak(mode, summary)
    /\ processed_files' = <<>>
    /\ fi' = 1
    /\ ri' = 1
    /\ outcome' = "running"
    /\ pc' = "loop"
    /\ StartHistory
    /\ UNCHANGED <<fs, summary, puts, consumed>>

(* ---------------------------------------------------------- the file loop *)
\* faulty variant: the mode flag inverted, so an update run skips nothing
SkipKnownInverted(period_key, periods, mode) == period_key \in Range(periods) /\ ~mode

\* `if period_key in existing_periods and update_mode: continue`
SkipKnown(period_key, periods, mode) == period_key \in Range(periods) /\ mode

\* what the try block makes of a workbook before it reads a data row:
\* "error" (load_workbook or next(ws.rows) raises), "reject" (a required
\* column is missing) or "ok"
FileVerdict(wb) ==
    IF wb.kind # "table" THEN "error"
    ELSE IF MissingColumns(wb.headers) # {} THEN "reject"
    ELSE "ok"

\* load_workbook returned a workbook for this file
Loaded(wb) == wb.kind \in {"table", "blank"}

\* faulty variant: the file is recorded however the try block ended
ConsumedAlways(pf, file, verdict) == Append(pf, file)

\* processed_files after the try block has ended with this verdict
Consumed(pf, file, verdict) == IF verdict = "done" THEN Append(pf, file) ELSE pf

\* faulty variant: the set is replaced instead of extended
AddParticipantReplaces(parts, student_id) == {student_id}

\* all_participants.add(student_id)
AddParticipant(parts, student_id) == parts \cup {student_id}

\* faulty variant: the name and contact of a new participant are not recorded
StoreInfoNever(pinfo, student_id, name, phone) == pinfo

\* faulty variant: the guard dropped, so the last sighting wins
StoreInfoOverwrites(pinfo, student_id, name, phone) ==
    DictPut(pinfo, student_id, <<name, phone>>)

\* `if student_id not in participant_info: participant_info[student_id] = [name, phone]`
StoreInfo(pinfo, student_id, name, phone) ==
    IF student_id \in DOMAIN pinfo THEN pinfo
    ELSE DictPut(pinfo, student_id, <<name, phone>>)

\* faulty variant: a score already stored under the label is kept
StoreScoreKeepsFirst(data, student_id, name, phone, period_key, score) ==
    LET rec == IF student_id \in DOMAIN data THEN data[student_id]
               ELSE [info |-> <<name, phone>>, scores |-> EmptyDict]
    IN DictPut(data, student_id,
               [rec EXCEPT !.scores = IF period_key \in DOMAIN rec.scores THEN rec.scores
                                      ELSE DictPut(rec.scores, period_key, score)])

\* `if student_id not in all_data: ...` and `all_data[student_id]['scores'][period_key] = score`
StoreScore(data, student_id, name, phone, period_key, score) ==
    LET rec == IF student_id \in DOMAIN data THEN data[student_id]
               ELSE [info |-> <<name, phone>>, scores |-> EmptyDict]
    IN DictPut(data, student_id,
               [rec EXCEPT !.scores = DictPut(rec.scores, period_key, score)])

\* `if not student_id`
NoStudentId(student_id) == student_id = ""

CurFile == files[fi]
CurBook == fs[CurFile]
CurRow == CurBook.rows[ri]

AtFile == pc = "loop" /\ fi <= Len(files)

\* the period of the file is already in the summary: the file is not opened
SkipFile ==
    /\ AtFile
    /\ SkipKnown(PeriodKey(CurFile), existing_periods, update_mode)
    /\ fi' = fi + 1
    /\ UNCHANGED <<fs, summary, pc, update_mode, files, ri, existing_data,
                   existing_periods, all_data, all_participants, participant_info,
                   processed_files, open_wbs, outcome, runs, puts, history, consumed>>

\* opening or reading the header raises: the except clause prints and the
\* loop goes on; a workbook that was loaded is not closed
FileError ==
    /\ AtFile
    /\ ~SkipKnown(PeriodKey(CurFile), existing_periods, update_mode)
    /\ FileVerdict(CurBook) = "error"
    /\ processed_files' = Consumed(processed_files, CurFile, "error")
    /\ open_wbs' = open_wbs \cup (IF Loaded(CurBook) THEN {CurFile} ELSE {})
    /\ fi' = fi + 1
    /\ UNCHANGED <<fs, summary, pc, update_mode, files, ri, existing_data,
                   existing_periods, all_data, all_participants, participant_info,
                   outcome, runs, puts, history, consumed>>

\* a required column is missing: `continue`, with the workbook left open
RejectFile ==
    /\ AtFile
    /\ ~SkipKnown(PeriodKey(CurFile), existing_periods, update_mode)
    /\ FileVerdict(CurBook) = "reject"
    /\ processed_files' = Consumed(processed_files, CurFile, "reject")
    /\ open_wbs' = open_wbs \cup {CurFile}
    /\ fi' = fi + 1
    /\ UNCHANGED <<fs, summary, pc, update_mode, files, ri, existing_data,
                   existing_periods, all_data, all_participants, participant_info,
                   outcome, runs, puts, history, consumed>>

\* the header is complete: the row loop starts
OpenFile ==
    /\ AtFile
    /\ ~SkipKnown(PeriodKey(CurFile), existing_periods, update_mode)
    /\ FileVerdict(CurBook) = "ok"
    /\ open_wbs' = open_wbs \cup {CurFile}
    /\ pc' = "rows"
    /\ ri' = 1
    /\ UNCHANGED <<fs, summary, update_mode, files, fi, existing_data,
                   existing_periods, all_data, all_participants, participant_info,
                   processed_files, outcome, runs, puts, history, consumed>>

AtRow == pc = "rows" /\ ri <= Len(CurBook.rows)

RowUnchanged ==
    UNCHANGED <<fs, summary, pc, update_mode, files, fi, existing_data,
                existing_periods, processed_files, open_wbs, outcome, runs, puts,
                history, consumed>>

\* a row with too few cells is skipped
RowShort ==
    /\ AtRow
    /\ RowTooShort(CurBook.headers, CurRow)
    /\ ri' = ri + 1
    /\ UNCHANGED <<all_data, all_participants, participant_info>>
    /\ RowUnchanged

\* a row whose student_id is falsy is skipped
RowNoId ==
    /\ AtRow
    /\ ~RowTooShort(CurBook.headers, CurRow)
    /\ NoStudentId(PyStr(CurRow[Index(CurBook.headers, IdCol)]))
    /\ ri' = ri + 1
    /\ UNCHANGED <<all_data, all_participants, participant_info>>
    /\ RowUnchanged

\* a row is folded into the three structures
RowFold ==
    /\ AtRow
    /\ ~RowTooShort(CurBook.headers, CurRow)
    /\ LET hs == CurBook.headers
           name == CurRow[Index(hs, NameCol)]
           phone == CurRow[Index(hs, PhoneCol)]
           student_id == PyStr(CurRow[Index(hs, IdCol)])
           score == NoneToZero(CurRow[Index(hs, TotalCol)])
       IN /\ ~NoStudentId(student_id)
          /\ all_participants' = AddParticipant(all_participants, student_id)
          /\ participant_info' = StoreInfo(participant_info, student_id, name, phone)
          /\ all_data' = StoreScore(all_data, student_id, name, phone,
                                    PeriodKey(CurFile), score)
    /\ ri' = ri + 1
    /\ RowUnchanged

\* the rows are done: the file is recorded and its workbook closed
FinishFile ==
    /\ pc = "rows"
    /\ ri > Len(CurBook.rows)
    /\ processed_files' = Consumed(processed_files, CurFile, "done")
    /\ open_wbs' = open_wbs \ {CurFile}
    /\ fi' = fi + 1
    /\ pc' = "loop"
    /\ UNCHANGED <<fs, summary, update_mode, files, ri, existing_data,
                   existing_periods, all_data, all_participants, participant_info,
                   outcome, runs, puts, history, consumed>>

(* ------------------------------------------------------ the summary builder *)
\* faulty variant: the labels loaded from the summary are left out
AllPeriodsNewOnly(periods, pf) == Sorted({PeriodKey(f) : f \in Range(pf)})

\* faulty variant: the labels in descending order
AllPeriodsDescending(periods, pf) ==
    LET ps == Sorted(Range(periods) \cup {PeriodKey(f) : f \in Range(pf)})
    IN [k \in 1..Len(ps) |-> ps[Len(ps) + 1 - k]]

\* faulty variant: the labels of all matched files instead of the processed ones
AllPeriodsOfMatched(periods, pf) ==
    Sorted(Range(periods) \cup {PeriodKey(f) : f \in Range(files)})

\* all_periods = sorted(set(existing_periods + [labels of processed_files]))
AllPeriods(periods, pf) ==
    Sorted(Range(periods) \cup {PeriodKey(f) : f \in Range(pf)})

\* participant_info.get(student_id, ['unknown', 'unknown'])
StudentInfo(pinfo, student_id) ==
    IF student_id \in DOMAIN pinfo THEN pinfo[student_id]
    ELSE <<StrC("unknown"), StrC("unknown")>>

\* all_data.get(student_id, {}).get('scores', {})
StudentScores(data, student_id) ==
    IF student_id \in DOMAIN data THEN data[student_id].scores ELSE EmptyDict

\* student_scores.get(period, 0)
ScoreGet(scores, period) == IF period \in DOMAIN scores THEN scores[period] ELSE IntC(0)

ScoreCells(scores, periods) == [i \in 1..Len(periods) |-> ScoreGet(scores, periods[i])]

\* `total_score += score` raises TypeError unless the score is a number
Addable(c) == c.t = "int"

RECURSIVE TotalScore(_)
\* total_score after the loop over all_periods
TotalScore(cells) ==
    IF cells = <<>> THEN 0 ELSE cells[1].n + TotalScore(Tail(cells))

\* faulty variant: the total leaves out the first period column
RowDataSkipsFirst(data, pinfo, periods, student_id) ==
    LET info == StudentInfo(pinfo, student_id)
        cells == ScoreCells(StudentScores(data, student_id), periods)
    IN <<info[1], info[2], StrC(student_id)>> \o cells
          \o <<IntC(IF cells = <<>> THEN 0 ELSE TotalScore(Tail(cells)))>>

\* the list row_data of one participant
RowData(data, pinfo, periods, student_id) ==
    LET info == StudentInfo(pinfo, student_id)
        cells == ScoreCells(StudentScores(data, student_id), periods)
    IN <<info[1], info[2], StrC(student_id)>> \o cells \o <<IntC(TotalScore(cells))>>

\* the key of the sort: x[-1]
SortKey(row) == row[Len(row)].n

\* faulty variant: reverse=True left out, the rows ascend
BeforeAscending(a, b) == SortKey(a) < SortKey(b)

\* reverse=True: a row goes before the rows whose key is smaller
Before(a, b) == SortKey(a) > SortKey(b)

RECURSIVE InsertRow(_, _)
\* row placed behind every row that does not come after it (the sort is stable)
InsertRow(sorted, row) ==
    IF sorted = <<>> THEN <<row>>
    ELSE IF Before(row, sorted[1]) THEN <<row>> \o sorted
    ELSE <<sorted[1]>> \o InsertRow(Tail(sorted), row)

RECURSIVE SortRows(_, _)
\* result_data.sort(key=lambda x: x[-1], reverse=True)
SortRows(rows, acc) ==
    IF rows = <<>> THEN acc ELSE SortRows(Tail(rows), InsertRow(acc, Head(rows)))

\* the orders in which `for student_id in all_participants` may visit a set
IterationOrders(S) ==
    {p \in [1..Cardinality(S) -> S] : \A i, j \in 1..Cardinality(S) : i # j => p[i] # p[j]}

OutputHeaders(periods) == <<NameCol, PhoneCol, IdCol>> \o periods \o <<TotalCol>>

\* the workbook that result_wb.save leaves on disk
OutputBook(data, pinfo, periods, order) ==
    Table(OutputHeaders(periods),
          SortRows([i \in 1..Len(order) |-> RowData(data, pinfo, periods, order[i])], <<>>))

\* some score that the builder will add is not a number
BuildRaises(data, parts, periods) ==
    \E id \in parts : \E i \in 1..Len(periods) :
        ~Addable(ScoreGet(StudentScores(data, id), periods[i]))

AfterLoop == pc = "loop" /\ fi > Len(files)

EndUnchanged ==
    UNCHANGED <<fs, update_mode, files, fi, ri, existing_data, existing_periods,
                all_data, all_participants, participant_info, processed_files,
                open_wbs, runs, puts, history>>

\* nothing was processed: the run returns without writing
EndNoOutput ==
    /\ AfterLoop
    /\ processed_files = <<>>
    /\ outcome' = (IF DOMAIN existing_data = {} THEN "nothing_read" ELSE "nothing_new")
    /\ pc' = "idle"
    /\ UNCHANGED <<summary, consumed>>
    /\ EndUnchanged

\* the builder adds a score that is not a number: TypeError leaves the function
BuildFail ==
    /\ AfterLoop
    /\ processed_files # <<>>
    /\ BuildRaises(all_data, all_participants,
                   AllPeriods(existing_periods, processed_files))
    /\ outcome' = "type_error"
    /\ pc' = "idle"
    /\ UNCHANGED <<summary, consumed>>
    /\ EndUnchanged

\* the table is built, sorted and saved over SUMMARY_FILE
BuildAndSave ==
    /\ AfterLoop
    /\ processed_files # <<>>
    /\ LET periods == AllPeriods(existing_periods, processed_files)
       IN /\ ~BuildRaises(all_data, all_participants, periods)
          /\ \E order \in IterationOrders(all_participants) :
                summary' = OutputBook(all_data, participant_info, periods, order)
    /\ consumed' = (IF update_mode THEN consumed ELSE {}) \cup Range(processed_files)
    /\ outcome' = "written"
    /\ pc' = "idle"
    /\ EndUnchanged

Next ==
    \/ \E f \in FileNames : \E wb \in SheetsFor(f) : PutFile(f, wb)
    \/ \E mode \in BOOLEAN : StartRunNoFiles(mode)
    \/ \E mode \in BOOLEAN : StartRun(mode)
    \/ SkipFile
    \/ FileError
    \/ RejectFile
    \/ OpenFile
    \/ RowShort
    \/ RowNoId
    \/ RowFold
    \/ FinishFile
    \/ EndNoOutput
    \/ BuildFail
    \/ BuildAndSave

Spec == Init /\ [][Next]_vars

(* ------------------------------------------------- reading tables as data *)
\* the cell of row i under the column titled h
CellAt(wb, i, h) == wb.rows[i][Index(wb.headers, h)]

\* positions of the period columns: between the identifier and the total
PeriodPositions(wb) == 4..(Len(wb.headers) - 1)

\* the identifiers of the rows of a summary
SummaryIds(wb) == {CellAt(wb, i, IdCol).s : i \in 1..Len(wb.rows)}

\* the data rows of a period workbook that carry every required cell
FullRows(wb) == {i \in 1..Len(wb.rows) : ~RowTooShort(wb.headers, wb.rows[i])}

\* a workbook with its four columns whose rows all carry an identifier and a
\* score that is a number or empty
ValidBook(wb) ==
    /\ wb.kind = "table"
    /\ Range(RequiredColumns) \subseteq Range(wb.headers)
    /\ \A i \in 1..Len(wb.rows) :
          /\ i \in FullRows(wb)
          /\ CellAt(wb, i, IdCol).t # "none"
          /\ PyStr(CellAt(wb, i, IdCol)) # ""
          /\ CellAt(wb, i, TotalCol).t \in {"int", "none"}

\* the identifiers a period workbook names
IdsIn(wb) == {PyStr(CellAt(wb, i, IdCol)) : i \in FullRows(wb)}

RunOver == pc = "idle" /\ runs > 0

(* ------------------------------------------------------------------ claims *)

\* C1: a second update-mode run over the same directory as the update-mode
\* run before it consumes no file and leaves the summary as it was.
C1_SecondRunConsumesNothing ==
    (RunOver /\ update_mode /\ prev_mode = "update" /\ prev_fs = run_fs)
        => (processed_files = <<>> /\ summary = run_summary)

\* C2: when every file folded into the summary on disk is a valid workbook,
\* the identifiers of the summary are exactly the identifiers those files
\* name, and the label of each such file is the title of exactly one column.
C2_MonotonicUnion ==
    (summary # NoFile /\ \A f \in consumed : ValidBook(fs[f]))
        => /\ SummaryIds(summary) = UNION {IdsIn(fs[f]) : f \in consumed}
           /\ \A f \in consumed :
                 Cardinality({k \in 1..Len(summary.headers) :
                                 summary.headers[k] = PeriodKey(f)}) = 1

\* two update-mode runs have each written the summary from valid workbooks
C2_Witness ==
    /\ RunOver /\ outcome = "written" /\ update_mode /\ run_summary # NoFile
    /\ Cardinality(consumed) = 2
    /\ \A f \in consumed : ValidBook(fs[f])
    /\ Cardinality(SummaryIds(summary)) = 3
    /\ SummaryIds(run_summary) # SummaryIds(summary)

\* every row of old is a row of new with the same name, contact and scores
Preserved(old, new) ==
    \A i \in 1..Len(old.rows) : \E j \in 1..Len(new.rows) :
        /\ CellAt(new, j, IdCol) = CellAt(old, i, IdCol)
        /\ CellAt(new, j, NameCol) = CellAt(old, i, NameCol)
        /\ CellAt(new, j, PhoneCol) = CellAt(old, i, PhoneCol)
        /\ \A k \in PeriodPositions(old) :
              /\ Cardinality({m \in PeriodPositions(new) :
                                 new.headers[m] = old.headers[k]}) = 1
              /\ new.rows[j][Index(new.headers, old.headers[k])] = old.rows[i][k]

\* C3: an update-mode run that starts from a summary and writes the output
\* keeps every participant, period column and score of that summary.
C3_NoLoss ==
    [][(update_mode /\ summary # NoFile /\ pc = "loop" /\ outcome' = "written")
          => Preserved(summary, summary')]_vars

\* an update-mode run has extended a summary that had rows
C3_Witness ==
    /\ RunOver /\ outcome = "written" /\ update_mode
    /\ run_summary # NoFile /\ Len(run_summary.rows) > 0
    /\ Len(summary.headers) > Len(run_summary.headers)
    /\ Len(summary.rows) > Len(run_summary.rows)

\* the rows of a consumed file that name the identifier
Sightings(f, id) == {i \in FullRows(fs[f]) : PyStr(CellAt(fs[f], i, IdCol)) = id}

\* name and contact of the first row that names id in the first processed file
\* that names it
FirstFileInfo(pf, id) ==
    LET k == CHOOSE k \in 1..Len(pf) :
                 /\ Sightings(pf[k], id) # {}
                 /\ \A m \in 1..(k - 1) : Sightings(pf[m], id) = {}
        i == CHOOSE i \in Sightings(pf[k], id) : \A m \in Sightings(pf[k], id) : i <= m
    IN <<CellAt(fs[pf[k]], i, NameCol), CellAt(fs[pf[k]], i, PhoneCol)>>

\* name and contact of the row of a summary that carries id
SummaryInfo(wb, id) ==
    LET i == CHOOSE i \in 1..Len(wb.rows) : CellAt(wb, i, IdCol).s = id
    IN <<CellAt(wb, i, NameCol), CellAt(wb, i, PhoneCol)>>

\* C4: in a written output the name and contact of a participant are those of
\* the loaded summary when it has the identifier, else those of the first row
\* naming it in the first processed file that names it.
C4_FirstWriteWins ==
    (RunOver /\ outcome = "written")
        => \A id \in SummaryIds(summary) :
              SummaryInfo(summary, id) =
                 IF update_mode /\ run_summary # NoFile /\ id \in SummaryIds(run_summary)
                 THEN SummaryInfo(run_summary, id)
                 ELSE FirstFileInfo(processed_files, id)

\* an identifier kept the name of an earlier run although a file processed
\* later gives it another name
C4_Witness ==
    /\ RunOver /\ outcome = "written" /\ update_mode /\ run_summary # NoFile
    /\ \E id \in SummaryIds(run_summary) : \E k \in 1..Len(processed_files) :
          /\ Sightings(processed_files[k], id) # {}
          /\ FirstFileInfo(processed_files, id) # SummaryInfo(summary, id)

\* C5: no run folds two files into the same period label, and an update-mode
\* run folds no file into a label the loaded summary already had.
C5_LabelIngestedOnce ==
    /\ \A i, j \in 1..Len(processed_files) :
          i # j => PeriodKey(processed_files[i]) # PeriodKey(processed_files[j])
    /\ update_mode =>
          \A i \in 1..Len(processed_files) :
              PeriodKey(processed_files[i]) \notin Range(existing_periods)

\* the sum of the cells of row i in the period columns
RECURSIVE PeriodSum(_, _, _)
PeriodSum(wb, i, k) ==
    IF k >= Len(wb.headers) THEN 0 ELSE wb.rows[i][k].n + PeriodSum(wb, i, k + 1)

\* C6: in a written output every known period is a column, a participant has
\* 0 in each period column for which it has no score entry, and its total is
\* the sum of its cells over all period columns.
C6_ZeroDefaultTotal ==
    (RunOver /\ outcome = "written")
        => /\ {summary.headers[k] : k \in PeriodPositions(summary)} =
                 Range(existing_periods) \cup {PeriodKey(f) : f \in Range(processed_files)}
           /\ \A i \in 1..Len(summary.rows) :
                 /\ \A k \in PeriodPositions(summary) :
                       summary.headers[k] \notin
                             DOMAIN all_data[CellAt(summary, i, IdCol).s].scores
                          => summary.rows[i][k] = IntC(0)
                 /\ CellAt(summary, i, TotalCol) = IntC(PeriodSum(summary, i, 4))

\* a participant with a score in one period and none in another has a total
C6_Witness ==
    /\ RunOver /\ outcome = "written"
    /\ Len(summary.headers) >= 6
    /\ \E i \in 1..Len(summary.rows) :
          /\ CellAt(summary, i, TotalCol).n > 0
          /\ \E k \in PeriodPositions(summary) :
                summary.headers[k] \notin
                    DOMAIN all_data[CellAt(summary, i, IdCol).s].scores

\* some row of a period workbook, or of the summary the run loaded, carries
\* this identifier in its identifier cell
Carried(id) ==
    \/ \E f \in FileNames :
          /\ fs[f].kind = "table"
          /\ IdCol \in Range(fs[f].headers)
          /\ \E i \in FullRows(fs[f]) :
                /\ CellAt(fs[f], i, IdCol).t # "none"
                /\ CellAt(fs[f], i, IdCol) # StrC("")
                /\ PyStr(CellAt(fs[f], i, IdCol)) = id
    \/ run_summary # NoFile /\ id \in SummaryIds(run_summary)

\* C7: rows without an identifier create nothing: every participant of the
\* accumulated state is an identifier that some row carries.
C7_NoParticipantWithoutId ==
    \A id \in all_participants \cup DOMAIN all_data \cup DOMAIN participant_info :
        Carried(id)

\* the file the loop is about to open, and what its content is
Opening == AtFile /\ ~(PeriodKey(CurFile) \in Range(existing_periods) /\ update_mode)
LacksColumn(wb) == wb.kind = "table" /\ ~(Range(RequiredColumns) \subseteq Range(wb.headers))
Unreadable(wb) == wb.kind \in {"corrupt", "blank"}
Complete(wb) == wb.kind = "table" /\ Range(RequiredColumns) \subseteq Range(wb.headers)

\* the accumulated state and the list of consumed files stay as they are and
\* the loop moves to the next file
FileLeftOut ==
    /\ all_data' = all_data
    /\ all_participants' = all_participants
    /\ participant_info' = participant_info
    /\ processed_files' = processed_files
    /\ pc' = "loop"
    /\ fi' = fi + 1

\* C8: a file that lacks a required column adds no participant, no score and
\* no consumed file; the period columns of a written output are labels of the
\* loaded summary or of consumed files, none of which lacks a column; and
\* every file with a complete header that the run does not skip is consumed.
C8_SchemaRejection ==
    /\ [][(Opening /\ LacksColumn(CurBook)) => FileLeftOut]_vars
    /\ [](RunOver /\ files # <<>> =>
            /\ \A f \in Range(processed_files) : ~LacksColumn(fs[f])
            /\ outcome = "written" =>
                  \A k \in PeriodPositions(summary) :
                      \/ summary.headers[k] \in Range(existing_periods)
                      \/ \E f \in Range(processed_files) : summary.headers[k] = PeriodKey(f)
            /\ \A k \in 1..Len(files) :
                  (Complete(fs[files[k]])
                      /\ ~(PeriodKey(files[k]) \in Range(existing_periods) /\ update_mode))
                    => files[k] \in Range(processed_files))

\* a file was rejected and a file after it was consumed and written
C8_Witness ==
    /\ RunOver /\ outcome = "written"
    /\ \E k \in 1..Len(files) : \E m \in (k + 1)..Len(files) :
          /\ LacksColumn(fs[files[k]])
          /\ files[m] \in Range(processed_files)
          /\ PeriodKey(files[k]) \notin {summary.headers[j] : j \in PeriodPositions(summary)}

\* C9: when opening or parsing a file raises, the file is not consumed, the
\* accumulated state stays as it was and the loop moves to the next file.
C9_UnreadableFileRecovery ==
    [][(Opening /\ Unreadable(CurBook)) => FileLeftOut]_vars

\* an unreadable file came before a file that was consumed and written
C9_Witness ==
    /\ RunOver /\ outcome = "written"
    /\ \E k \in 1..Len(files) : \E m \in (k + 1)..Len(files) :
          /\ Unreadable(fs[files[k]])
          /\ files[k] \notin Range(processed_files)
          /\ files[m] \in Range(processed_files)

\* C10: a run ends at one of the two early returns or at the write of the
\* output, whatever the cells of the input files hold.
C10_NoContentAborts ==
    RunOver => outcome \in {"no_files", "nothing_read", "nothing_new", "written"}

\* C11: a run that consumed no file ends without writing and leaves the
\* summary file as it was; every other run ends with the summary written.
C11_WrittenIffConsumed ==
    RunOver =>
        /\ processed_files = <<>> => (summary = run_summary /\ outcome # "written")
        /\ processed_files # <<>> => outcome = "written"

\* the labels of a list of files
LabelsOf(pf) == {PeriodKey(f) : f \in Range(pf)}

\* the titles of the period columns of a table
PeriodTitles(wb) == {wb.headers[k] : k \in PeriodPositions(wb)}

\* the score of the last row naming id in the last processed file of this
\* label that names it, an empty cell counting as 0; 0 when no row names it
LastScore(pf, id, label) ==
    LET ks == {k \in 1..Len(pf) : PeriodKey(pf[k]) = label /\ Sightings(pf[k], id) # {}}
    IN IF ks = {} THEN IntC(0)
       ELSE LET k == CHOOSE k \in ks : \A m \in ks : m <= k
                i == CHOOSE i \in Sightings(pf[k], id) :
                         \A m \in Sightings(pf[k], id) : m <= i
            IN NoneToZero(CellAt(fs[pf[k]], i, TotalCol))

\* C12: a regenerate run starts from nothing, and what it writes is fixed by
\* the matched files alone: the files with a complete header are consumed,
\* their labels are the period columns, the identifiers their rows name are
\* the rows, and names, contacts and scores are read from those rows.
C12_RegenerateIgnoresSummary ==
    /\ (runs > 0 /\ ~update_mode /\ outcome # "no_files") =>
          (DOMAIN existing_data = {} /\ existing_periods = <<>>)
    /\ (RunOver /\ ~update_mode /\ outcome = "written") =>
          /\ Range(processed_files) = {f \in Range(files) : Complete(fs[f])}
          /\ PeriodTitles(summary) = LabelsOf(processed_files)
          /\ SummaryIds(summary) =
                UNION {IdsIn(fs[f]) \ {""} : f \in Range(processed_files)}
          /\ \A i \in 1..Len(summary.rows) :
                LET id == CellAt(summary, i, IdCol).s
                IN /\ <<CellAt(summary, i, NameCol), CellAt(summary, i, PhoneCol)>> =
                         FirstFileInfo(processed_files, id)
                   /\ \A k \in PeriodPositions(summary) :
                         summary.rows[i][k] =
                            LastScore(processed_files, id, summary.headers[k])

\* a regenerate run wrote over a summary that gave a participant of the new
\* output another name
C12_Witness ==
    /\ RunOver /\ ~update_mode /\ outcome = "written" /\ run_summary # NoFile
    /\ \E id \in SummaryIds(run_summary) \cap SummaryIds(summary) :
          SummaryInfo(run_summary, id) # SummaryInfo(summary, id)

\* C13: in the summary on disk the total of each data row is at least the
\* total of the row after it.
C13_SortedByTotal ==
    summary # NoFile =>
        \A i \in 1..(Len(summary.rows) - 1) :
            CellAt(summary, i, TotalCol).n >= CellAt(summary, i + 1, TotalCol).n

\* a written output with three rows of three different totals
C13_Witness ==
    /\ RunOver /\ outcome = "written"
    /\ Len(summary.rows) >= 3
    /\ Cardinality({CellAt(summary, i, TotalCol).n : i \in 1..Len(summary.rows)}) >= 3


\* C14: the header of a written output is name, contact, identifier, the known
\* period labels (those loaded from the summary and those of the processed
\* files) each once in ascending order, then total; and the output has exactly
\* one row for each participant identifier.
C14_OutputShape ==
    (RunOver /\ outcome = "written") =>
        LET n == Len(summary.headers)
        IN /\ n >= 4
           /\ SubSeq(summary.headers, 1, 3) = <<NameCol, PhoneCol, IdCol>>
           /\ summary.headers[n] = TotalCol
           /\ \A k \in 4..(n - 2) : StrLess(summary.headers[k], summary.headers[k + 1])
           /\ PeriodTitles(summary) =
                 Range(existing_periods) \cup LabelsOf(processed_files)
           /\ \A i \in 1..Len(summary.rows) : Len(summary.rows[i]) = n
           /\ \A i, j \in 1..Len(summary.rows) :
                 CellAt(summary, i, IdCol) = CellAt(summary, j, IdCol) => i = j
           /\ SummaryIds(summary) = all_participants

\* an update run wrote a table with a column carried from the summary, a column
\* of a new file, and a participant seen in both
C14_Witness ==
    /\ RunOver /\ update_mode /\ outcome = "written"
    /\ Range(existing_periods) \ LabelsOf(processed_files) # {}
    /\ LabelsOf(processed_files) \ Range(existing_periods) # {}
    /\ Len(summary.rows) >= 2
    /\ \E f \in Range(processed_files) : IdsIn(fs[f]) \cap DOMAIN existing_data # {}


\* C15: no workbook is open when the loop turns to the next file or when the
\* run has ended, and at most one input workbook is open at any time.
C15_HandlesReleased ==
    /\ Cardinality(open_wbs \ {SUMMARY_FILE}) <= 1
    /\ (pc = "loop" \/ RunOver) => open_wbs = {}


\* the labels under which all_data holds a score
ScoreKeys == UNION {DOMAIN all_data[id].scores : id \in DOMAIN all_data}

\* C16: every label that keys a score is a label loaded from the summary, the
\* label of a processed file or the label of the file whose rows are being
\* read; when the output is built every such label is in the period list, and
\* it is the title of a period column of what is written.
C16_KnownLabels ==
    /\ ScoreKeys \subseteq
          (Range(existing_periods) \cup LabelsOf(processed_files)
             \cup (IF pc = "rows" THEN {PeriodKey(CurFile)} ELSE {}))
    /\ (AfterLoop /\ processed_files # <<>>) =>
          ScoreKeys \subseteq Range(existing_periods) \cup LabelsOf(processed_files)
    /\ (RunOver /\ outcome = "written") => ScoreKeys \subseteq PeriodTitles(summary)

\* a run wrote scores while a matched file with rows of its own was left out
\* and got no column
C16_Witness ==
    /\ RunOver /\ outcome = "written"
    /\ ScoreKeys # {}
    /\ \E f \in Range(files) \ Range(processed_files) :
          /\ fs[f].kind = "table" /\ fs[f].rows # <<>>
          /\ PeriodKey(f) \notin PeriodTitles(summary)


\* C17: in a written output the cell of a participant under the label of a
\* processed file is the score of the last row that names the participant in
\* the last processed file of that label that names it: a later row of the
\* same file, or a later file of the same label, replaces the score, and a
\* participant that only an earlier file names keeps that file's score.
C17_LastWriteWins ==
    (RunOver /\ outcome = "written") =>
        \A i \in 1..Len(summary.rows) : \A k \in PeriodPositions(summary) :
            LET id == CellAt(summary, i, IdCol).s
                label == summary.headers[k]
            IN (\E f \in Range(processed_files) :
                    PeriodKey(f) = label /\ Sightings(f, id) # {})
                  => summary.rows[i][k] = LastScore(processed_files, id, label)

\* two processed files of one label name a participant with different scores,
\* and the earlier file names a participant that the later one does not
RepeatedAcrossFiles ==
    \E k, m \in 1..Len(processed_files) :
        LET f == processed_files[k]
            g == processed_files[m]
        IN /\ k < m
           /\ PeriodKey(f) = PeriodKey(g)
           /\ \E id \in IdsIn(fs[f]) \cap IdsIn(fs[g]) :
                 LastScore(<<f>>, id, PeriodKey(f)) # LastScore(<<g>>, id, PeriodKey(g))
           /\ IdsIn(fs[f]) \ IdsIn(fs[g]) # {}

\* a run wrote after processing two files of one label that disagree on the
\* score of a participant
C17_Witness == RunOver /\ outcome = "written" /\ RepeatedAcrossFiles

\* C18: from the load on and after every row, all_participants, the keys of
\* all_data and the keys of participant_info are the same set, and
\* participant_info[id] is all_data[id]['info']; so every row that is written
\* carries a stored name and contact, never the fallback.
C18_StructuresInStep ==
    /\ all_participants = DOMAIN all_data
    /\ all_participants = DOMAIN participant_info
    /\ \A id \in all_participants : participant_info[id] = all_data[id].info
    /\ (RunOver /\ outcome = "written") =>
          \A i \in 1..Len(summary.rows) :
              LET id == CellAt(summary, i, IdCol).s
              IN /\ id \in DOMAIN all_data
                 /\ <<CellAt(summary, i, NameCol), CellAt(summary, i, PhoneCol)>> =
                       all_data[id].info

\* in an update run that loaded participants, the rows read so far have added
\* a participant and have given a loaded participant a further score
C18_Witness ==
    /\ pc = "rows" /\ ri > 1
    /\ DOMAIN existing_data # {}
    /\ all_participants \ DOMAIN existing_data # {}
    /\ \E id \in DOMAIN existing_data :
          DOMAIN all_data[id].scores # DOMAIN existing_data[id].scores

====
